---- MODULE Spec2Model ----
(***************************************************************************)
(* A model of github.com/cognusion/go-racket: the Job of job.go            *)
(* (Supervisor, NewWorker, IsDone), driven by a caller that sends Work     *)
(* into the intake channel, calls the drain function and waits on          *)
(* IsDone(), with the WorkerFunc of job_test.go (emit one Progress, then   *)
(* increment a shared counter); the Progress envelope of progress.go with  *)
(* its methods; and ProgressLogger, fed by a caller through its source     *)
(* channel, with a reader on its forwarding channel.                       *)
(*                                                                         *)
(* Every goroutine is a process; one action is one step that other         *)
(* goroutines can observe (a channel operation, an atomic operation on     *)
(* workerCount, a semaphore operation).  Go's select picks among its ready *)
(* cases at random, so a select whose two cases are both ready is two      *)
(* enabled actions.  time.After is not modelled: a poll of the IsDone      *)
(* waiter can be separated from the next one by any number of steps of     *)
(* the other goroutines, as the Go scheduler gives no bound on them.       *)
(***************************************************************************)
EXTENDS Integers, Sequences, FiniteSets, TLC

\* ---------------------------------------------------------------- bounds
\* Largest number of Work items the caller submits.
MaxItems == 2

\* Largest concurrency limit (maxWorkers) tried.
MaxWorkers == 2

\* Largest buffer capacity of the caller-supplied intake channel.
MaxBuf == 1

\* Largest number of iterations of the admission loop (the loop's c).
MaxIter == 3

\* Largest number of Progress envelopes the caller sends to ProgressLogger.
MaxFeed == 3

\* ------------------------------------------------------ program constants
\* job.go:95  "if count > 4 { break }"
DoneStreak == 4

WorkerIds == 1..MaxIter

\* The caller makes one IsDone() call, as Test_Job and Example do.
DoneIds == {1}

\* The goroutines of the caller that may receive from an IsDone() channel:
\* two, the least number that makes "several readers".
Readers == {1, 2}

\* The zero value of Work, which a receive from a closed channel yields.
ZeroWork == 0

\* ------------------------------------------------------ Progress envelope
\* progress.go:13-19, the ProgressType constants (iota).
ProgressError == 0
ProgressUpdate == 1
ProgressEstimate == 2
ProgressMessage == 3
ProgressOther == 4

\* The out-of-range ProgressType of Test_ProgressLogger and Test_ProgressType.
ProgressCrap == 1024

\* The dynamic values a Progress.Data (type any) holds in the tests: an error
\* with its message, a string, an int64, the empty struct io.Discard, nil.
ErrorValue(msg) == [kind |-> "error", v |-> msg]
StringValue(str) == [kind |-> "string", v |-> str]
Int64Value(n) == [kind |-> "int64", v |-> n]
DiscardValue == [kind |-> "discard", v |-> ""]
NilValue == [kind |-> "nil", v |-> ""]

\* The outcome of a failed type assertion x.(T): a run-time panic.
Panic == [kind |-> "panic", v |-> "interface conversion"]

\* Progress{Type: t, Data: d}
Progress(t, d) == [Type |-> t, Data |-> d]

\* The zero Progress.
ZeroProgress == Progress(0, NilValue)

\* PErrorf, PMessagef (for a format without verbs), PUpdate, PEstimate.
PErrorf(format) == Progress(ProgressError, ErrorValue(format))
PMessagef(format) == Progress(ProgressMessage, StringValue(format))
PUpdate(count) == Progress(ProgressUpdate, Int64Value(count))
PEstimate(estimate) == Progress(ProgressEstimate, Int64Value(estimate))

\* ProgressType.String with a default branch that names the unknown tag.
TypeString_NamedDefault(t) ==
    CASE t = ProgressError -> "ProgressError"
      [] t = ProgressUpdate -> "ProgressUpdate"
      [] t = ProgressEstimate -> "ProgressEstimate"
      [] t = ProgressMessage -> "ProgressMessage"
      [] t = ProgressOther -> "ProgressOther"
      [] OTHER -> "ProgressUnknown"

\* func (p ProgressType) String() string
TypeString(t) ==
    CASE t = ProgressError -> "ProgressError"
      [] t = ProgressUpdate -> "ProgressUpdate"
      [] t = ProgressEstimate -> "ProgressEstimate"
      [] t = ProgressMessage -> "ProgressMessage"
      [] t = ProgressOther -> "ProgressOther"
      [] OTHER -> ""

\* fmt's rendering of a Data value under %+v (and %s of an error or a
\* string, %d of an int64): an error prints its message, a string itself,
\* an int64 its decimal digits, the empty struct "{}", nil "<nil>".
FormatValue(d) ==
    CASE d.kind = "int64" -> ToString(d.v)
      [] d.kind = "discard" -> "{}"
      [] d.kind = "nil" -> "<nil>"
      [] OTHER -> d.v

\* func (p *Progress) Error() error; the type assertion p.Data.(error)
\* panics when the Data of a ProgressError is not an error.
PError(e) ==
    IF e.Type = ProgressError
    THEN IF e.Data.kind = "error" THEN e.Data ELSE Panic
    ELSE NilValue

\* func (p *Progress) String() string: Sprintf("%s: %+v", p.Type, p.Data)
PString(e) == TypeString(e.Type) \o ": " \o FormatValue(e.Data)

\* The lines ProgressLogger writes with outLog.Printf (without the newline).
ErrorLine(e) == "[PROGRESS] ERROR: " \o FormatValue(e.Data)
MessageLine(e) == "[PROGRESS] " \o FormatValue(e.Data)
NumberLine(e) == "[PROGRESS] " \o TypeString(e.Type) \o ": " \o FormatValue(e.Data)
UnknownLine(e) ==
    "[PROGRESS] ??: {Type:" \o TypeString(e.Type) \o " Data:"
        \o FormatValue(e.Data) \o "}"

\* The tags and Data values the methods are tried on.
TagValues == {-1, ProgressError, ProgressUpdate, ProgressEstimate,
              ProgressMessage, ProgressOther, 5, ProgressCrap}

DataValues == {ErrorValue("an ERROR"), StringValue("CRAP!"), Int64Value(-1),
               Int64Value(42), DiscardValue}

\* Every Progress value over these tags and Data values, well typed or not.
Envelopes == {Progress(t, d) : t \in TagValues, d \in DataValues}

\* The envelopes fed to ProgressLogger: those of Test_ProgressLogger, and a
\* ProgressOther as in Test_ProgressType.  Their Data has the type the tag
\* promises, so the type assertions of ProgressLogger succeed.
FedEnvelopes == {PMessagef("Hello"), PErrorf("Error!"), PEstimate(42),
                 PUpdate(-1), Progress(ProgressOther, DiscardValue),
                 Progress(ProgressCrap, StringValue("CRAP!"))}

VARIABLES
    nItems,       \* input: the number of items the caller will send (N)
    workCap,      \* input: capacity of the intake channel the caller made
    drained,      \* input: whether the caller runs a consumer on progressChan
    maxWorkers,   \* Supervisor's maxWorkers argument (K); 0 before the call
    workBuf,      \* j.workChan: the items buffered in the channel
    workClosed,   \* j.workChan has been closed by the caller
    sent,         \* the number of sends into workChan the caller completed
    doneClosed,   \* j.doneChan is closed (the drain function was invoked)
    lockFree,     \* j.lock: the number of free slots of the semaphore
    workerCount,  \* j.workerCount
    supPc,        \* the admission loop: idle, select, add, spawn, exit
    c,            \* the admission loop's c (after the c++ of the iteration)
    doneSeen,     \* the admission loop has taken its doneChan case
    idLog,        \* the ids given to go j.NewWorker(id), in admission order
    wpc,          \* NewWorker(id): none, select, emit, count, dec, unlock, gone
    wCount,       \* the shared counter of the WorkerFunc
    execLog,      \* the items the WorkerFunc was called with, in call order
    wtPc,         \* IsDone goroutine i: none, wait, poll, send, exit
    wtCount,      \* IsDone goroutine i: its local count
    delivered,    \* the number of values sent on IsDone channel i
    rpc,          \* reader r: idle, wait, got
    rch           \* the IsDone channel reader r receives from

VARIABLES
    logMessages,    \* ProgressLogger's logMessages argument
    errfSet,        \* ProgressLogger's errf argument is not nil
    barSet,         \* ProgressLogger's barChan argument is not nil
    progressCap,    \* capacity of the channel passed as progressChan
    barCap,         \* capacity of the channel passed as barChan
    progressBuf,    \* progressChan: the envelopes buffered in the channel
    progressClosed, \* progressChan has been closed by the caller
    fed,            \* the envelopes the caller has sent, in order
    sinkPc,         \* ProgressLogger: off, recv, switch, errf, fwd, done
    p,              \* ProgressLogger's loop variable p
    outLog,         \* the lines written to outLog, in order
    errfLog,        \* the arguments of the calls of errf, in order
    barBuf,         \* barChan: the envelopes buffered in the channel
    barSent,        \* the envelopes sent on barChan, in order
    barPc           \* the caller's reader of barChan: recv, gone

VARIABLES
    pe,             \* the Progress the methods are called on
    gotError,       \* <<pe.Error()>> once called, <<>> before
    gotTypeString,  \* <<pe.Type.String()>> once called, <<>> before
    gotString       \* <<pe.String()>> once called, <<>> before

sinkVars == <<logMessages, errfSet, barSet, progressCap, barCap, progressBuf,
              progressClosed, fed, sinkPc, p, outLog, errfLog, barBuf,
              barSent, barPc>>

envVars == <<pe, gotError, gotTypeString, gotString>>

\* The variables of progress.go, which no step of the Job touches.
progressVars == <<sinkVars, envVars>>

vars == <<nItems, workCap, drained, maxWorkers, workBuf, workClosed, sent,
          doneClosed, lockFree, workerCount, supPc, c, doneSeen, idLog, wpc,
          wCount, execLog, wtPc, wtCount, delivered, rpc, rch, progressVars>>

inputVars == <<nItems, workCap, drained>>
chanVars == <<workBuf, workClosed, sent>>
supVars == <<supPc, c, doneSeen, idLog>>
workerVars == <<wpc, wCount, execLog>>
waiterVars == <<wtPc, wtCount, delivered>>
readerVars == <<rpc, rch>>

\* The variables of job.go, which no step of ProgressLogger touches.
jobVars == <<inputVars, chanVars, maxWorkers, doneClosed, lockFree,
             workerCount, supVars, workerVars, waiterVars, readerVars>>

\* ------------------------------------------------------------- helpers
\* Worker invocations that hold a slot: started and not yet past Unlock.
Live == {w \in WorkerIds : wpc[w] \in {"select", "emit", "count", "dec", "unlock"}}

\* Worker invocations inside the caller's WorkerFunc.
Executing == {w \in WorkerIds : wpc[w] \in {"emit", "count"}}

\* The admission loop has returned and every worker invocation has returned.
Quiet == supPc = "exit" /\ Live = {}

\* ---------------------------------------------------------------- Init
\* NewJob: a defaultJob holding only the workerFunc; the caller has made the
\* intake channel with some capacity and decided how many items to send.
JobStart ==
    /\ maxWorkers = 0
    /\ workBuf = <<>>
    /\ workClosed = FALSE
    /\ sent = 0
    /\ doneClosed = FALSE
    /\ lockFree = 0
    /\ workerCount = 0
    /\ supPc = "idle"
    /\ c = 0
    /\ doneSeen = FALSE
    /\ idLog = <<>>
    /\ wpc = [w \in WorkerIds |-> "none"]
    /\ wCount = 0
    /\ execLog = <<>>
    /\ wtPc = [i \in DoneIds |-> "none"]
    /\ wtCount = [i \in DoneIds |-> 0]
    /\ delivered = [i \in DoneIds |-> 0]
    /\ rpc = [r \in Readers |-> "idle"]
    /\ rch = [r \in Readers |-> 0]

\* No ProgressLogger has been started.
SinkOff ==
    /\ logMessages = FALSE
    /\ errfSet = FALSE
    /\ barSet = FALSE
    /\ progressCap = 0
    /\ barCap = 0
    /\ progressBuf = <<>>
    /\ progressClosed = FALSE
    /\ fed = <<>>
    /\ sinkPc = "off"
    /\ p = ZeroProgress
    /\ outLog = <<>>
    /\ errfLog = <<>>
    /\ barBuf = <<>>
    /\ barSent = <<>>
    /\ barPc = "gone"

\* No method of a Progress has been called.
EnvOff ==
    /\ pe = ZeroProgress
    /\ gotError = <<>>
    /\ gotTypeString = <<>>
    /\ gotString = <<>>

\* No Job is used.
JobOff ==
    /\ nItems = 0
    /\ workCap = 0
    /\ drained = FALSE
    /\ JobStart

Init ==
    /\ nItems \in 0..MaxItems
    /\ workCap \in 0..MaxBuf
    /\ drained \in BOOLEAN
    /\ JobStart
    /\ SinkOff
    /\ EnvOff

\* ---------------------------------------------------------- Supervisor
\* Supervisor with semaphore.NewSemaphore(maxWorkers + 1).
Supervisor_ExtraSlot(k) ==
    /\ supPc = "idle"
    /\ maxWorkers' = k
    /\ lockFree' = k + 1
    /\ c' = 1
    /\ supPc' = "select"
    /\ UNCHANGED <<progressVars, inputVars, chanVars, doneClosed, workerCount, doneSeen,
                   idLog, workerVars, waiterVars, readerVars>>

\* Supervisor(maxWorkers, workChan): makes doneChan, progressChan and the
\* semaphore with maxWorkers free slots and starts the admission loop, which
\* does c := 0 and the first c++ before its first select.
Supervisor(k) ==
    /\ supPc = "idle"
    /\ maxWorkers' = k
    /\ lockFree' = k
    /\ c' = 1
    /\ supPc' = "select"
    /\ UNCHANGED <<progressVars, inputVars, chanVars, doneClosed, workerCount, doneSeen,
                   idLog, workerVars, waiterVars, readerVars>>

\* SupAcquire with the slot case of the select always ready and no slot taken
\* (an admission loop that does not go through the semaphore).
SupAcquire_NoSlot ==
    /\ supPc = "select"
    /\ c <= MaxIter
    /\ supPc' = "add"
    /\ UNCHANGED <<progressVars, inputVars, chanVars, maxWorkers, doneClosed, lockFree,
                   workerCount, c, doneSeen, idLog, workerVars, waiterVars,
                   readerVars>>

\* select case <-j.lock.Until(): a slot of the semaphore is taken.
SupAcquire ==
    /\ supPc = "select"
    /\ c <= MaxIter
    /\ lockFree > 0
    /\ lockFree' = lockFree - 1
    /\ supPc' = "add"
    /\ UNCHANGED <<progressVars, inputVars, chanVars, maxWorkers, doneClosed, workerCount,
                   c, doneSeen, idLog, workerVars, waiterVars, readerVars>>

\* j.workerCount.Add(1)
SupAdd ==
    /\ supPc = "add"
    /\ workerCount' = workerCount + 1
    /\ supPc' = "spawn"
    /\ UNCHANGED <<progressVars, inputVars, chanVars, maxWorkers, doneClosed, lockFree,
                   c, doneSeen, idLog, workerVars, waiterVars, readerVars>>

\* SupSpawn without the c++ of the next iteration (c++ placed before the
\* loop): every worker is started with the same id.
SupSpawn_NoIncrement ==
    /\ supPc = "spawn"
    /\ wpc' = [wpc EXCEPT ![c] = "select"]
    /\ idLog' = Append(idLog, c)
    /\ supPc' = "select"
    /\ UNCHANGED <<progressVars, inputVars, chanVars, maxWorkers, doneClosed, lockFree,
                   workerCount, c, doneSeen, wCount, execLog,
                   waiterVars, readerVars>>

\* go j.NewWorker(c), then the c++ of the next iteration.
SupSpawn ==
    /\ supPc = "spawn"
    /\ wpc' = [wpc EXCEPT ![c] = "select"]
    /\ idLog' = Append(idLog, c)
    /\ c' = c + 1
    /\ supPc' = "select"
    /\ UNCHANGED <<progressVars, inputVars, chanVars, maxWorkers, doneClosed, lockFree,
                   workerCount, doneSeen, wCount, execLog,
                   waiterVars, readerVars>>

\* SupExit with "break" in place of "return": the break leaves the select
\* only, and the loop goes on.
SupExit_Break ==
    /\ supPc = "select"
    /\ doneClosed
    /\ ~doneSeen
    /\ doneSeen' = TRUE
    /\ UNCHANGED <<progressVars, inputVars, chanVars, maxWorkers, doneClosed, lockFree,
                   workerCount, supPc, c, idLog, workerVars, waiterVars,
                   readerVars>>

\* select case <-j.doneChan: return
SupExit ==
    /\ supPc = "select"
    /\ doneClosed
    /\ doneSeen' = TRUE
    /\ supPc' = "exit"
    /\ UNCHANGED <<progressVars, inputVars, chanVars, maxWorkers, doneClosed, lockFree,
                   workerCount, c, idLog, workerVars, waiterVars, readerVars>>

\* ----------------------------------------------------------- NewWorker
\* The call j.workerFunc(id, w, j.progressChan) of NewWorker.
CallWorkerFunc(w, item) ==
    /\ wpc' = [wpc EXCEPT ![w] = "emit"]
    /\ execLog' = Append(execLog, item)

\* WorkerRecvBuf that reads the head of the buffer and leaves it there.
WorkerRecvBuf_Peek(w) ==
    /\ wpc[w] = "select"
    /\ workBuf # <<>>
    /\ CallWorkerFunc(w, Head(workBuf))
    /\ UNCHANGED <<progressVars, inputVars, chanVars, maxWorkers, doneClosed, lockFree,
                   workerCount, supVars, wCount, waiterVars, readerVars>>

\* select case w := <-j.workChan, the channel holding a buffered item.
WorkerRecvBuf(w) ==
    /\ wpc[w] = "select"
    /\ workBuf # <<>>
    /\ CallWorkerFunc(w, Head(workBuf))
    /\ workBuf' = Tail(workBuf)
    /\ UNCHANGED <<progressVars, inputVars, workClosed, sent, maxWorkers, doneClosed,
                   lockFree, workerCount, supVars, wCount, waiterVars,
                   readerVars>>

\* select case w := <-j.workChan, meeting the caller's send "wchan <- work"
\* (the only way an unbuffered channel passes an item).
WorkerRecvSend(w) ==
    /\ wpc[w] = "select"
    /\ workBuf = <<>>
    /\ ~workClosed
    /\ sent < nItems
    /\ CallWorkerFunc(w, sent + 1)
    /\ sent' = sent + 1
    /\ UNCHANGED <<progressVars, inputVars, workBuf, workClosed, maxWorkers, doneClosed,
                   lockFree, workerCount, supVars, wCount, waiterVars,
                   readerVars>>

\* select case w := <-j.workChan on a closed and empty channel: the receive
\* yields the zero Work at once (the code does not look at the "ok" result).
WorkerRecvClosed(w) ==
    /\ wpc[w] = "select"
    /\ workClosed
    /\ workBuf = <<>>
    /\ CallWorkerFunc(w, ZeroWork)
    /\ UNCHANGED <<progressVars, inputVars, chanVars, maxWorkers, doneClosed, lockFree,
                   workerCount, supVars, wCount, waiterVars, readerVars>>

\* select case <-j.doneChan: the worker leaves without work.
WorkerDone(w) ==
    /\ wpc[w] = "select"
    /\ doneClosed
    /\ wpc' = [wpc EXCEPT ![w] = "dec"]
    /\ UNCHANGED <<progressVars, inputVars, chanVars, maxWorkers, doneClosed, lockFree,
                   workerCount, supVars, wCount, execLog, waiterVars,
                   readerVars>>

\* WorkerEmit of a WorkerFunc that selects on doneChan as well: once doneChan
\* is closed the invocation may give up and return without its wCount.Add(1).
WorkerEmit_Cancel(w) ==
    /\ wpc[w] = "emit"
    /\ \/ drained /\ wpc' = [wpc EXCEPT ![w] = "count"]
       \/ doneClosed /\ wpc' = [wpc EXCEPT ![w] = "dec"]
    /\ UNCHANGED <<progressVars, inputVars, chanVars, maxWorkers, doneClosed, lockFree,
                   workerCount, supVars, wCount, execLog, waiterVars,
                   readerVars>>

\* WorkerFunc of job_test.go: pchan <- PMessagef(...).  progressChan is
\* unbuffered, so the send completes only when the consumer receives.
WorkerEmit(w) ==
    /\ wpc[w] = "emit"
    /\ drained
    /\ wpc' = [wpc EXCEPT ![w] = "count"]
    /\ UNCHANGED <<progressVars, inputVars, chanVars, maxWorkers, doneClosed, lockFree,
                   workerCount, supVars, wCount, execLog, waiterVars,
                   readerVars>>

\* WorkerFunc of job_test.go: wCount.Add(1), and the WorkerFunc returns.
WorkerCount(w) ==
    /\ wpc[w] = "count"
    /\ wCount' = wCount + 1
    /\ wpc' = [wpc EXCEPT ![w] = "dec"]
    /\ UNCHANGED <<progressVars, inputVars, chanVars, maxWorkers, doneClosed, lockFree,
                   workerCount, supVars, execLog, waiterVars,
                   readerVars>>

\* WorkerDec with the two defers in the other order: the slot is given back
\* before the counter is decremented (here: in place of the decrement, which
\* is then never made before the slot is free).
WorkerDec_UnlockFirst(w) ==
    /\ wpc[w] = "dec"
    /\ lockFree' = lockFree + 1
    /\ wpc' = [wpc EXCEPT ![w] = "gone"]
    /\ UNCHANGED <<progressVars, inputVars, chanVars, maxWorkers, doneClosed, workerCount,
                   supVars, wCount, execLog, waiterVars, readerVars>>

\* defer j.workerCount.Add(-1)  (the last defer runs first)
WorkerDec(w) ==
    /\ wpc[w] = "dec"
    /\ workerCount' = workerCount - 1
    /\ wpc' = [wpc EXCEPT ![w] = "unlock"]
    /\ UNCHANGED <<progressVars, inputVars, chanVars, maxWorkers, doneClosed, lockFree,
                   supVars, wCount, execLog, waiterVars, readerVars>>

\* WorkerUnlock without the deferred Unlock: NewWorker returns and keeps
\* its slot.
WorkerUnlock_NoRelease(w) ==
    /\ wpc[w] = "unlock"
    /\ wpc' = [wpc EXCEPT ![w] = "gone"]
    /\ UNCHANGED <<progressVars, inputVars, chanVars, maxWorkers, doneClosed, lockFree,
                   workerCount, supVars, wCount, execLog, waiterVars, readerVars>>

\* defer j.lock.Unlock(), and NewWorker returns.
WorkerUnlock(w) ==
    /\ wpc[w] = "unlock"
    /\ lockFree' = lockFree + 1
    /\ wpc' = [wpc EXCEPT ![w] = "gone"]
    /\ UNCHANGED <<progressVars, inputVars, chanVars, maxWorkers, doneClosed, workerCount,
                   supVars, wCount, execLog, waiterVars, readerVars>>

\* -------------------------------------------------------------- caller
\* wchan <- NewWork(...) into a buffered intake channel with room.
CallerSend ==
    /\ sent < nItems
    /\ ~workClosed
    /\ Len(workBuf) < workCap
    /\ workBuf' = Append(workBuf, sent + 1)
    /\ sent' = sent + 1
    /\ UNCHANGED <<progressVars, inputVars, workClosed, maxWorkers, doneClosed, lockFree,
                   workerCount, supVars, workerVars, waiterVars, readerVars>>

\* close(wchan) by the caller, after its last send.
CallerClose ==
    /\ sent = nItems
    /\ ~workClosed
    /\ workClosed' = TRUE
    /\ UNCHANGED <<progressVars, inputVars, workBuf, sent, maxWorkers, doneClosed, lockFree,
                   workerCount, supVars, workerVars, waiterVars, readerVars>>

\* doneFunc: close(j.doneChan), called once, after the caller's last send.
DoneFunc ==
    /\ supPc # "idle"
    /\ sent = nItems
    /\ ~doneClosed
    /\ doneClosed' = TRUE
    /\ UNCHANGED <<progressVars, inputVars, chanVars, maxWorkers, lockFree, workerCount,
                   supVars, workerVars, waiterVars, readerVars>>

\* -------------------------------------------------------------- IsDone
\* IsDone(): makes the channel b and starts the waiting goroutine; the calls
\* are numbered in call order.  The first n reader goroutines of the caller
\* block in "<-b" on the returned channel (Test_Job: <-j.IsDone()); n = 0 is
\* a caller that never receives.
IsDone(i, n) ==
    /\ supPc # "idle"
    /\ wtPc[i] = "none"
    /\ \A k \in DoneIds : k < i => wtPc[k] # "none"
    /\ \A r \in Readers : r <= n => rpc[r] = "idle"
    /\ wtPc' = [wtPc EXCEPT ![i] = "wait"]
    /\ rpc' = [r \in Readers |-> IF r <= n THEN "wait" ELSE rpc[r]]
    /\ rch' = [r \in Readers |-> IF r <= n THEN i ELSE rch[r]]
    /\ UNCHANGED <<progressVars, inputVars, chanVars, maxWorkers, doneClosed, lockFree,
                   workerCount, supVars, workerVars, wtCount, delivered>>

\* WaiterAwake that waits for the counter to read zero in place of doneChan.
WaiterAwake_OnZero(i) ==
    /\ wtPc[i] = "wait"
    /\ workerCount = 0
    /\ wtPc' = [wtPc EXCEPT ![i] = "poll"]
    /\ UNCHANGED <<progressVars, inputVars, chanVars, maxWorkers, doneClosed, lockFree,
                   workerCount, supVars, workerVars, wtCount, delivered, readerVars>>

\* WaiterAwake without the receive from doneChan: polling starts at once.
WaiterAwake_NoWait(i) ==
    /\ wtPc[i] = "wait"
    /\ wtPc' = [wtPc EXCEPT ![i] = "poll"]
    /\ UNCHANGED <<progressVars, inputVars, chanVars, maxWorkers, doneClosed, lockFree,
                   workerCount, supVars, workerVars, wtCount, delivered, readerVars>>

\* <-j.doneChan
WaiterAwake(i) ==
    /\ wtPc[i] = "wait"
    /\ doneClosed
    /\ wtPc' = [wtPc EXCEPT ![i] = "poll"]
    /\ UNCHANGED <<progressVars, inputVars, chanVars, maxWorkers, doneClosed, lockFree,
                   workerCount, supVars, workerVars, wtCount, delivered, readerVars>>

\* NextCount with ">= 0" in place of "> 0": every reading resets the count.
NextCount_AlwaysReset(count, n) == IF n >= 0 THEN 0 ELSE count + 1

\* The count of the IsDone goroutine after one reading n of workerCount.
NextCount(count, n) == IF n > 0 THEN 0 ELSE count + 1

\* One iteration of the for loop: j.workerCount.Load(), the update of count,
\* and either the break or the sleep of <-time.After(10ms).
WaiterPoll(i) ==
    /\ wtPc[i] = "poll"
    /\ wtCount' = [wtCount EXCEPT ![i] = NextCount(wtCount[i], workerCount)]
    /\ wtPc' = [wtPc EXCEPT ![i] =
                  IF wtCount'[i] > DoneStreak THEN "send" ELSE "poll"]
    /\ UNCHANGED <<progressVars, inputVars, chanVars, maxWorkers, doneClosed, lockFree,
                   workerCount, supVars, workerVars, delivered, readerVars>>

\* WaiterSend inside the loop: the goroutine sends and stays ready to send.
WaiterSend_Again(i, r) ==
    /\ wtPc[i] = "send"
    /\ rpc[r] = "wait"
    /\ rch[r] = i
    /\ delivered' = [delivered EXCEPT ![i] = @ + 1]
    /\ rpc' = [rpc EXCEPT ![r] = "got"]
    /\ UNCHANGED <<progressVars, inputVars, chanVars, maxWorkers, doneClosed, lockFree,
                   workerCount, supVars, workerVars, wtPc, wtCount, rch>>

\* WaiterSend as a broadcast (close(b) in place of b <- true): every reader
\* blocked on the channel is released.
WaiterSend_Broadcast(i, r) ==
    /\ wtPc[i] = "send"
    /\ rpc[r] = "wait"
    /\ rch[r] = i
    /\ wtPc' = [wtPc EXCEPT ![i] = "exit"]
    /\ delivered' = [delivered EXCEPT ![i] = @ + 1]
    /\ rpc' = [q \in Readers |->
                 IF rpc[q] = "wait" /\ rch[q] = i THEN "got" ELSE rpc[q]]
    /\ UNCHANGED <<progressVars, inputVars, chanVars, maxWorkers, doneClosed, lockFree,
                   workerCount, supVars, workerVars, wtCount, rch>>

\* b <- true, meeting the receive of reader r (b is unbuffered); the
\* goroutine ends.
WaiterSend(i, r) ==
    /\ wtPc[i] = "send"
    /\ rpc[r] = "wait"
    /\ rch[r] = i
    /\ wtPc' = [wtPc EXCEPT ![i] = "exit"]
    /\ delivered' = [delivered EXCEPT ![i] = @ + 1]
    /\ rpc' = [rpc EXCEPT ![r] = "got"]
    /\ UNCHANGED <<progressVars, inputVars, chanVars, maxWorkers, doneClosed, lockFree,
                   workerCount, supVars, workerVars, wtCount, rch>>

\* ---------------------------------------------------------------- Next
SupStep == SupAcquire \/ SupAdd \/ SupSpawn \/ SupExit

WorkerStep(w) ==
    \/ WorkerRecvBuf(w)
    \/ WorkerRecvSend(w)
    \/ WorkerRecvClosed(w)
    \/ WorkerDone(w)
    \/ WorkerEmit(w)
    \/ WorkerCount(w)
    \/ WorkerDec(w)
    \/ WorkerUnlock(w)

WaiterStep(i) == WaiterAwake(i) \/ WaiterPoll(i) \/ \E r \in Readers : WaiterSend(i, r)

Next ==
    \/ \E k \in 1..MaxWorkers : Supervisor(k)
    \/ SupStep
    \/ \E w \in WorkerIds : WorkerStep(w)
    \/ CallerSend
    \/ CallerClose
    \/ DoneFunc
    \/ \E i \in DoneIds : \E n \in 0..Cardinality(Readers) : IsDone(i, n)
    \/ \E i \in DoneIds : WaiterStep(i)

Spec == Init /\ [][Next]_vars

\* Fair scheduling: every goroutine that can take a step eventually takes
\* one (weak fairness), and a select that is ready to take its doneChan case
\* again and again eventually takes it (Go's select chooses uniformly at
\* random among its ready cases).
FairSpec ==
    /\ Spec
    /\ WF_vars(SupStep)
    /\ SF_vars(SupExit)
    /\ WF_vars(\E w \in WorkerIds : WorkerStep(w))
    /\ WF_vars(\E i \in DoneIds : WaiterStep(i))

\* ======================================================= ProgressLogger
\* The caller has made progressChan (and barChan, if it passes one), has
\* started "go ProgressLogger(outLog, logMessages, errf, progressChan,
\* barChan)" and, with a barChan, a goroutine that receives from it.
SinkInit ==
    /\ JobOff
    /\ EnvOff
    /\ logMessages \in BOOLEAN
    /\ errfSet \in BOOLEAN
    /\ barSet \in BOOLEAN
    /\ progressCap \in 0..MaxBuf
    /\ barCap \in 0..MaxBuf
    /\ barSet = FALSE => barCap = 0
    /\ progressBuf = <<>>
    /\ progressClosed = FALSE
    /\ fed = <<>>
    /\ sinkPc = "recv"
    /\ p = ZeroProgress
    /\ outLog = <<>>
    /\ errfLog = <<>>
    /\ barBuf = <<>>
    /\ barSent = <<>>
    /\ barPc = IF barSet THEN "recv" ELSE "gone"

\* The caller's progressChan <- e, into the buffer of the channel.
FeedSend(e) ==
    /\ sinkPc # "off"
    /\ ~progressClosed
    /\ Len(fed) < MaxFeed
    /\ Len(progressBuf) < progressCap
    /\ progressBuf' = Append(progressBuf, e)
    /\ fed' = Append(fed, e)
    /\ UNCHANGED <<jobVars, envVars, logMessages, errfSet, barSet, progressCap,
                   barCap, progressClosed, sinkPc, p, outLog, errfLog, barBuf,
                   barSent, barPc>>

\* The caller's close(progressChan).
FeedClose ==
    /\ sinkPc # "off"
    /\ ~progressClosed
    /\ progressClosed' = TRUE
    /\ UNCHANGED <<jobVars, envVars, logMessages, errfSet, barSet, progressCap,
                   barCap, progressBuf, fed, sinkPc, p, outLog, errfLog,
                   barBuf, barSent, barPc>>

\* "for p := range progressChan" receiving a buffered envelope.
SinkRecvBuf ==
    /\ sinkPc = "recv"
    /\ progressBuf # <<>>
    /\ p' = Head(progressBuf)
    /\ progressBuf' = Tail(progressBuf)
    /\ sinkPc' = "switch"
    /\ UNCHANGED <<jobVars, envVars, logMessages, errfSet, barSet, progressCap,
                   barCap, progressClosed, fed, outLog, errfLog, barBuf,
                   barSent, barPc>>

\* "for p := range progressChan" meeting the caller's progressChan <- e.
SinkRecvSend(e) ==
    /\ sinkPc = "recv"
    /\ progressBuf = <<>>
    /\ ~progressClosed
    /\ Len(fed) < MaxFeed
    /\ p' = e
    /\ fed' = Append(fed, e)
    /\ sinkPc' = "switch"
    /\ UNCHANGED <<jobVars, envVars, logMessages, errfSet, barSet, progressCap,
                   barCap, progressBuf, progressClosed, outLog, errfLog,
                   barBuf, barSent, barPc>>

\* SinkEnd that ends the range loop whenever the channel is empty.
SinkEnd_OnEmpty ==
    /\ sinkPc = "recv"
    /\ progressBuf = <<>>
    /\ sinkPc' = "done"
    /\ UNCHANGED <<jobVars, envVars, logMessages, errfSet, barSet, progressCap,
                   barCap, progressBuf, progressClosed, fed, p, outLog,
                   errfLog, barBuf, barSent, barPc>>

\* The range loop ends: progressChan is closed and empty; ProgressLogger
\* returns.
SinkEnd ==
    /\ sinkPc = "recv"
    /\ progressBuf = <<>>
    /\ progressClosed
    /\ sinkPc' = "done"
    /\ UNCHANGED <<jobVars, envVars, logMessages, errfSet, barSet, progressCap,
                   barCap, progressBuf, progressClosed, fed, p, outLog,
                   errfLog, barBuf, barSent, barPc>>

\* SinkSwitch that forwards an Update or Estimate only when it logs it.
SinkSwitch_BarIfLogged ==
    /\ sinkPc = "switch"
    /\ CASE p.Type = ProgressError ->
              /\ outLog' = Append(outLog, ErrorLine(p))
              /\ sinkPc' = IF errfSet THEN "errf" ELSE "recv"
         [] p.Type = ProgressMessage ->
              /\ outLog' = IF logMessages THEN Append(outLog, MessageLine(p))
                                          ELSE outLog
              /\ sinkPc' = "recv"
         [] p.Type \in {ProgressUpdate, ProgressEstimate} ->
              /\ outLog' = IF logMessages THEN Append(outLog, NumberLine(p))
                                          ELSE outLog
              /\ sinkPc' = IF barSet /\ logMessages THEN "fwd" ELSE "recv"
         [] OTHER ->
              /\ outLog' = Append(outLog, UnknownLine(p))
              /\ sinkPc' = "recv"
    /\ UNCHANGED <<jobVars, envVars, logMessages, errfSet, barSet, progressCap,
                   barCap, progressBuf, progressClosed, fed, p, errfLog,
                   barBuf, barSent, barPc>>

\* SinkSwitch without a default case: an envelope of another tag is skipped.
SinkSwitch_NoDefault ==
    /\ sinkPc = "switch"
    /\ CASE p.Type = ProgressError ->
              /\ outLog' = Append(outLog, ErrorLine(p))
              /\ sinkPc' = IF errfSet THEN "errf" ELSE "recv"
         [] p.Type = ProgressMessage ->
              /\ outLog' = IF logMessages THEN Append(outLog, MessageLine(p))
                                          ELSE outLog
              /\ sinkPc' = "recv"
         [] p.Type \in {ProgressUpdate, ProgressEstimate} ->
              /\ outLog' = IF logMessages THEN Append(outLog, NumberLine(p))
                                          ELSE outLog
              /\ sinkPc' = IF barSet THEN "fwd" ELSE "recv"
         [] OTHER ->
              /\ outLog' = outLog
              /\ sinkPc' = "recv"
    /\ UNCHANGED <<jobVars, envVars, logMessages, errfSet, barSet, progressCap,
                   barCap, progressBuf, progressClosed, fed, p, errfLog,
                   barBuf, barSent, barPc>>

\* "switch p.Type" up to the end of the Printf of the case taken:
\*   ProgressError: always written; then errf, if there is one;
\*   ProgressMessage: written if logMessages;
\*   ProgressUpdate, ProgressEstimate: written if logMessages; then the send
\*     on barChan, if there is one;
\*   default: always written.
SinkSwitch ==
    /\ sinkPc = "switch"
    /\ CASE p.Type = ProgressError ->
              /\ outLog' = Append(outLog, ErrorLine(p))
              /\ sinkPc' = IF errfSet THEN "errf" ELSE "recv"
         [] p.Type = ProgressMessage ->
              /\ outLog' = IF logMessages THEN Append(outLog, MessageLine(p))
                                          ELSE outLog
              /\ sinkPc' = "recv"
         [] p.Type \in {ProgressUpdate, ProgressEstimate} ->
              /\ outLog' = IF logMessages THEN Append(outLog, NumberLine(p))
                                          ELSE outLog
              /\ sinkPc' = IF barSet THEN "fwd" ELSE "recv"
         [] OTHER ->
              /\ outLog' = Append(outLog, UnknownLine(p))
              /\ sinkPc' = "recv"
    /\ UNCHANGED <<jobVars, envVars, logMessages, errfSet, barSet, progressCap,
                   barCap, progressBuf, progressClosed, fed, p, errfLog,
                   barBuf, barSent, barPc>>

\* SinkErrf inside a retry loop: the callback is called again.
SinkErrf_Again ==
    /\ sinkPc = "errf"
    /\ errfLog' = Append(errfLog, p.Data)
    /\ UNCHANGED <<jobVars, envVars, logMessages, errfSet, barSet, progressCap,
                   barCap, progressBuf, progressClosed, fed, sinkPc, p, outLog,
                   barBuf, barSent, barPc>>

\* errf(p.Data.(error)); the callback returns.
SinkErrf ==
    /\ sinkPc = "errf"
    /\ errfLog' = Append(errfLog, p.Data)
    /\ sinkPc' = "recv"
    /\ UNCHANGED <<jobVars, envVars, logMessages, errfSet, barSet, progressCap,
                   barCap, progressBuf, progressClosed, fed, p, outLog, barBuf,
                   barSent, barPc>>

\* barChan can take a send now: it has buffer space, or its reader is
\* waiting in a receive.
BarReady == Len(barBuf) < barCap \/ (barBuf = <<>> /\ barPc = "recv")

\* SinkForward as a select with a default case: when barChan cannot take the
\* send the envelope is not forwarded and the loop goes on.
SinkForward_OrSkip ==
    /\ sinkPc = "fwd"
    /\ IF BarReady
       THEN /\ barSent' = Append(barSent, p)
            /\ barBuf' = IF Len(barBuf) < barCap THEN Append(barBuf, p)
                                                 ELSE barBuf
       ELSE UNCHANGED <<barSent, barBuf>>
    /\ sinkPc' = "recv"
    /\ UNCHANGED <<jobVars, envVars, logMessages, errfSet, barSet, progressCap,
                   barCap, progressBuf, progressClosed, fed, p, outLog,
                   errfLog, barPc>>

\* barChan <- p: into the buffer of barChan, or handed to its waiting reader;
\* the send blocks until one of the two is possible.
SinkForward ==
    /\ sinkPc = "fwd"
    /\ BarReady
    /\ barSent' = Append(barSent, p)
    /\ barBuf' = IF Len(barBuf) < barCap THEN Append(barBuf, p) ELSE barBuf
    /\ sinkPc' = "recv"
    /\ UNCHANGED <<jobVars, envVars, logMessages, errfSet, barSet, progressCap,
                   barCap, progressBuf, progressClosed, fed, p, outLog,
                   errfLog, barPc>>

\* The caller's reader receives a buffered envelope from barChan.
BarRecv ==
    /\ barPc = "recv"
    /\ barBuf # <<>>
    /\ barBuf' = Tail(barBuf)
    /\ UNCHANGED <<jobVars, envVars, logMessages, errfSet, barSet, progressCap,
                   barCap, progressBuf, progressClosed, fed, sinkPc, p, outLog,
                   errfLog, barSent, barPc>>

\* The caller's reader stops receiving from barChan (Test_ProgressLogger
\* receives twice and no more).
BarLeave ==
    /\ barPc = "recv"
    /\ barPc' = "gone"
    /\ UNCHANGED <<jobVars, envVars, logMessages, errfSet, barSet, progressCap,
                   barCap, progressBuf, progressClosed, fed, sinkPc, p, outLog,
                   errfLog, barBuf, barSent>>

\* The steps of the ProgressLogger goroutine.
SinkStep ==
    \/ SinkRecvBuf
    \/ \E e \in FedEnvelopes : SinkRecvSend(e)
    \/ SinkEnd
    \/ SinkSwitch
    \/ SinkErrf
    \/ SinkForward

SinkNext ==
    \/ \E e \in FedEnvelopes : FeedSend(e)
    \/ FeedClose
    \/ SinkStep
    \/ BarRecv
    \/ BarLeave

SinkSpec == SinkInit /\ [][SinkNext]_vars

\* Fair scheduling of the ProgressLogger goroutine and of the reader of
\* barChan while it reads.
SinkFairSpec ==
    /\ SinkSpec
    /\ WF_vars(SinkStep)
    /\ WF_vars(BarRecv)

\* ====================================================== Progress methods
\* A Progress value is built; its methods are called in any order.
EnvInit ==
    /\ JobOff
    /\ SinkOff
    /\ pe \in Envelopes
    /\ gotError = <<>>
    /\ gotTypeString = <<>>
    /\ gotString = <<>>

\* pe.Error()
CallError ==
    /\ gotError = <<>>
    /\ gotError' = <<PError(pe)>>
    /\ UNCHANGED <<jobVars, sinkVars, pe, gotTypeString, gotString>>

\* pe.Type.String()
CallTypeString ==
    /\ gotTypeString = <<>>
    /\ gotTypeString' = <<TypeString(pe.Type)>>
    /\ UNCHANGED <<jobVars, sinkVars, pe, gotError, gotString>>

\* pe.String()
CallString ==
    /\ gotString = <<>>
    /\ gotString' = <<PString(pe)>>
    /\ UNCHANGED <<jobVars, sinkVars, pe, gotError, gotTypeString>>

EnvNext == CallError \/ CallTypeString \/ CallString

EnvSpec == EnvInit /\ [][EnvNext]_vars

\* ================================================================ claims

\* At most one admission is between its slot and its "go NewWorker(c)".
Admitting == IF supPc \in {"add", "spawn"} THEN 1 ELSE 0

\* No admission takes place in this step: no slot is taken, the counter is
\* not incremented and no worker invocation is started.
NoAdmission ==
    /\ lockFree' >= lockFree
    /\ workerCount' <= workerCount
    /\ \A w \in WorkerIds : wpc[w] = "none" => wpc'[w] = "none"

\* C1: the worker invocations that were admitted (a slot was taken for them)
\* and have not yet returned are at most maxWorkers.
C1_AtMostK == Cardinality(Live) + Admitting <= maxWorkers

C1_Witness ==
    /\ maxWorkers = 2
    /\ Cardinality(Executing) = 2
    /\ lockFree = 0
    /\ supPc = "select"
    /\ c <= MaxIter

\* The number of calls of the WorkerFunc made with item k.
Calls(k) == Cardinality({n \in 1..Len(execLog) : execLog[n] = k})

\* C2 as stated: when the caller has completed its N sends, invoked the drain
\* function and not closed the intake channel, then once the admission loop
\* and every worker have returned the WorkerFunc has been called N times,
\* once for each of the N items, whatever the capacity of the channel.
C2_ExactlyN ==
    (Quiet /\ ~workClosed) =>
        /\ Len(execLog) = nItems
        /\ \A k \in 1..nItems : Calls(k) = 1

\* C2 amended: no submitted item is executed twice, whatever the capacity;
\* with an unbuffered intake channel, once the admission loop and every
\* worker have returned each of the N items has been executed exactly once,
\* and these are all the executions unless the caller closed the channel.
C2_UnbufferedExactlyOnce ==
    /\ \A k \in 1..nItems : Calls(k) <= 1
    /\ (Quiet /\ workCap = 0) =>
          /\ \A k \in 1..nItems : Calls(k) = 1
          /\ (~workClosed => Len(execLog) = nItems)

C2_Witness ==
    /\ Quiet
    /\ workCap = 0
    /\ nItems = MaxItems
    /\ maxWorkers = MaxWorkers
    /\ \A k \in 1..nItems : Calls(k) = 1

\* C3: with an unbuffered intake channel that the caller does not close, when
\* a reader has received from IsDone() every one of the N calls of the
\* WorkerFunc has returned: the shared counter reads N.
C3_CounterAtCompletion ==
    \A r \in Readers :
        (rpc[r] = "got" /\ workCap = 0 /\ ~workClosed) =>
            /\ wCount = nItems
            /\ Len(execLog) = nItems
            /\ Executing = {}

C3_Witness ==
    /\ \E r \in Readers : rpc[r] = "got"
    /\ workCap = 0
    /\ ~workClosed
    /\ drained
    /\ nItems = MaxItems
    /\ wCount = nItems

\* C4: in every state in which a completion value has been sent on an
\* IsDone() channel, no worker invocation is past admission and not yet
\* returned.
C4_NoWorkerAtCompletion ==
    \A i \in DoneIds : delivered[i] >= 1 => (Live = {} /\ Admitting = 0)

\* C5: under fair scheduling, once the drain function has been invoked, with
\* progressChan drained and a reader blocked on the IsDone channel, the
\* completion value is eventually delivered; and it is declared within
\* DoneStreak + 1 polls after the last worker invocation has left: from then
\* on every poll adds one to the waiter's count, and the waiter leaves its
\* loop as soon as the count exceeds DoneStreak.
C5_EventuallyDelivered ==
    /\ \A i \in DoneIds :
          (doneClosed /\ drained /\ \E r \in Readers : rpc[r] = "wait" /\ rch[r] = i)
              ~> (delivered[i] = 1)
    /\ [][\A i \in DoneIds :
            (Quiet /\ wtPc[i] = "poll" /\ <<wtPc[i], wtCount[i]>>' # <<wtPc[i], wtCount[i]>>)
                => wtCount'[i] = wtCount[i] + 1]_vars
    /\ [](\A i \in DoneIds :
            /\ wtCount[i] <= DoneStreak + 1
            /\ (wtCount[i] = DoneStreak + 1 <=> wtPc[i] \in {"send", "exit"}))

C5_Witness ==
    \E i \in DoneIds :
        /\ delivered[i] = 1
        /\ wtCount[i] = DoneStreak + 1
        /\ drained
        /\ nItems = MaxItems
        /\ Len(execLog) = nItems

\* C6 as stated: once the drain function has been invoked no step is an
\* admission.
C6_NoAdmissionAfterDrain == [][doneClosed => NoAdmission]_vars

\* C6 amended: once the admission loop has taken the doneChan case of its
\* select, no step is an admission and the loop stays ended, also while
\* slots are free.
C6_NoAdmissionAfterLoopEnds ==
    [][doneSeen => (NoAdmission /\ doneSeen' /\ supPc' = supPc)]_vars

C6_Witness ==
    /\ doneSeen
    /\ c <= MaxIter
    /\ maxWorkers >= 1
    /\ lockFree = maxWorkers
    /\ \E w \in WorkerIds : wpc[w] = "gone"

\* C7: the WorkerFunc is never called for an item that was not submitted:
\* its calls never outnumber the completed sends and none is made with the
\* zero Work of a closed channel.
C7_ClosureIsNotWork ==
    /\ Len(execLog) <= sent
    /\ \A n \in 1..Len(execLog) : execLog[n] # ZeroWork

\* C8: workerCount is never negative and equals the number of worker
\* invocations past admission (a slot was taken for them: an admission in
\* progress, or a NewWorker started) that have not yet returned (NewWorker
\* has not finished its deferred Unlock).
C8_CounterIsUnreturned ==
    /\ workerCount >= 0
    /\ workerCount = Cardinality(Live) + Admitting

\* C9: on each IsDone() channel at most one completion value is ever sent,
\* and the waiter that has left its polling loop sends exactly one: none
\* while it is blocked in the send, one when it has ended.
C9_FiresOnce ==
    \A i \in DoneIds :
        /\ delivered[i] <= 1
        /\ (wtPc[i] = "exit" <=> delivered[i] = 1)
        /\ (wtPc[i] \in {"none", "wait", "poll", "send"} => delivered[i] = 0)

C9_Witness ==
    \E i \in DoneIds :
        /\ delivered[i] = 1
        /\ \E r \in Readers : rpc[r] = "wait" /\ rch[r] = i

\* C10 as stated: under fair scheduling every reader blocked on an IsDone()
\* channel whose waiter has declared completion eventually receives.
C10_EveryReaderObserves ==
    \A r \in Readers : \A i \in DoneIds :
        (rpc[r] = "wait" /\ rch[r] = i /\ wtPc[i] = "send") ~> (rpc[r] = "got")

\* C10 amended: of the readers of one IsDone() channel at most one receives
\* the completion value, and a reader still blocked on the channel after the
\* value was sent stays blocked.
C10_OneReaderObserves ==
    /\ [](\A i \in DoneIds :
            Cardinality({r \in Readers : rpc[r] = "got" /\ rch[r] = i}) <= 1)
    /\ [][\A r \in Readers :
            (rpc[r] = "wait" /\ delivered[rch[r]] = 1) => rpc'[r] = "wait"]_vars

C10_Witness ==
    \E i \in DoneIds : \E r, q \in Readers :
        /\ rch[r] = i /\ rpc[r] = "got"
        /\ rch[q] = i /\ rpc[q] = "wait"
        /\ wtPc[i] = "exit"

\* C11: a completion value is sent on an IsDone() channel only after the
\* drain function has been invoked; without it the waiter stays blocked on
\* doneChan and never polls, whatever workerCount reads.
C11_NoCompletionWithoutDrain ==
    \A i \in DoneIds :
        ~doneClosed => (delivered[i] = 0 /\ wtPc[i] \in {"none", "wait"})

C11_Witness ==
    \E i \in DoneIds :
        /\ ~doneClosed
        /\ wtPc[i] = "wait"
        /\ \E r \in Readers : rpc[r] = "wait" /\ rch[r] = i
        /\ nItems = MaxItems
        /\ wCount = nItems
        /\ workerCount = 0
        /\ supPc = "select"

\* C12: the ids given to the worker invocations of one Supervisor are
\* pairwise different and increase strictly in admission order.
C12_UniqueIncreasingIds ==
    \A a, b \in 1..Len(idLog) : a < b => idLog[a] < idLog[b]

C12_Witness ==
    /\ Len(idLog) = MaxIter
    /\ \E w \in WorkerIds : wpc[w] = "gone"
    /\ \E w \in WorkerIds : wpc[w] = "select"

\* C19: after done() the waiter declares completion once workerCount has
\* read zero on 4 consecutive polls (wtCount is the number of consecutive
\* zero readings).
C19_FourZeroPolls ==
    \A i \in DoneIds : wtCount[i] >= 4 => wtPc[i] \in {"send", "exit"}

\* The slots of the semaphore that are held.
HeldSlots == maxWorkers - lockFree

\* C20: every worker invocation holds exactly one slot from its admission
\* until its Unlock, which comes after the WorkerFunc has returned and after
\* the counter was decremented: workerCount <= held slots <= maxWorkers.
C20_OneSlotPerWorker ==
    /\ HeldSlots = Cardinality(Live) + Admitting
    /\ workerCount <= HeldSlots
    /\ HeldSlots <= maxWorkers
    /\ lockFree >= 0

C20_Witness ==
    /\ HeldSlots = 2
    /\ workerCount = 1
    /\ \E w \in WorkerIds : wpc[w] = "unlock"
    /\ \E w \in WorkerIds : wpc[w] \in {"emit", "count"}

\* ------------------------------------------- claims about ProgressLogger
\* The envelopes ProgressLogger has received from progressChan, in order.
Consumed == SubSeq(fed, 1, Len(fed) - Len(progressBuf))

\* A sequence without its last element.
Front(q) == SubSeq(q, 1, Len(q) - 1)

\* The envelopes whose switch case has written what it writes.
Switched == IF sinkPc = "switch" THEN Front(Consumed) ELSE Consumed

\* The envelopes whose switch case has made its call of errf, if it makes one.
ErrfDone == IF sinkPc \in {"switch", "errf"} THEN Front(Consumed) ELSE Consumed

\* The envelopes whose switch case has made its send on barChan, if any.
ForwardDone == IF sinkPc \in {"switch", "fwd"} THEN Front(Consumed) ELSE Consumed

IsError(e) == e.Type = ProgressError

IsBarRelevant(e) == e.Type \in {ProgressUpdate, ProgressEstimate}

\* C13: with a barChan, the envelopes sent on it are exactly the
\* ProgressUpdate and ProgressEstimate envelopes handled so far, in order and
\* unchanged, whatever logMessages is; nothing else is sent on it.
C13_ForwardsBarRelevant ==
    barSet => barSent = SelectSeq(ForwardDone, IsBarRelevant)

C13_Witness ==
    /\ barSet
    /\ ~logMessages
    /\ sinkPc = "done"
    /\ fed = <<PEstimate(42), PErrorf("Error!"), PUpdate(-1)>>
    /\ barSent = <<PEstimate(42), PUpdate(-1)>>

\* The lines written for ProgressError envelopes.
ErrorLines == {ErrorLine(e) : e \in {x \in FedEnvelopes : IsError(x)}}

IsErrorLine(line) == line \in ErrorLines

\* C14: with an errf, errf has been called exactly once for each
\* ProgressError handled, with that envelope's error, and for nothing else;
\* at the moment of a call the line of that error is the last one written;
\* without an errf no call is made and every ProgressError handled has its
\* line all the same.
C14_ErrfOncePerError ==
    LET errs == SelectSeq(ErrfDone, IsError)
    IN  /\ errfSet => errfLog = [i \in 1..Len(errs) |-> errs[i].Data]
        /\ ~errfSet => errfLog = <<>> /\ sinkPc # "errf"
        /\ sinkPc = "errf" =>
              /\ IsError(p)
              /\ outLog # <<>>
              /\ outLog[Len(outLog)] = ErrorLine(p)
        /\ Len(SelectSeq(outLog, IsErrorLine)) = Len(SelectSeq(Switched, IsError))

C14_Witness ==
    /\ errfSet
    /\ sinkPc = "recv"
    /\ fed = <<PErrorf("Error!"), PMessagef("Hello"), PErrorf("Error!")>>
    /\ progressBuf = <<>>
    /\ errfLog = <<ErrorValue("Error!"), ErrorValue("Error!")>>

\* C15: ProgressLogger has returned only if progressChan is closed and
\* everything sent on it has been received; and once progressChan is closed
\* ProgressLogger returns, unless it is left in a send on a barChan that
\* nobody drains.
C15_EndsIffSourceClosed ==
    /\ [](sinkPc = "done" => progressClosed /\ progressBuf = <<>>)
    /\ progressClosed ~>
          (sinkPc = "done" \/ (sinkPc = "fwd" /\ barPc = "gone" /\ ~BarReady))

C15_Witness ==
    /\ sinkPc = "done"
    /\ progressCap > 0
    /\ Len(fed) = MaxFeed
    /\ barSent # <<>>
    /\ errfLog # <<>>

\* ProgressLogger is in its send on barChan, the channel has no free buffer
\* space and its reader has stopped reading: no step changes this any more.
StuckForwarding == sinkPc = "fwd" /\ barPc = "gone" /\ ~BarReady

\* C16 (as claimed): forwarding never leaves ProgressLogger blocked for good
\* on a barChan without a reader, with later envelopes waiting unconsumed.
C16_NeverStuckForwarding == ~(StuckForwarding /\ progressBuf # <<>>)

\* C16 (amended): while barChan can take no send, ProgressLogger stays in its
\* send: it receives nothing more from progressChan, writes nothing, sends
\* nothing and does not return.
C16_ForwardBlocksSink ==
    [][(sinkPc = "fwd" /\ ~BarReady) =>
          /\ sinkPc' = "fwd"
          /\ p' = p
          /\ Len(progressBuf') >= Len(progressBuf)
          /\ outLog' = outLog
          /\ barSent' = barSent]_vars

C16_Witness ==
    /\ StuckForwarding
    /\ progressBuf # <<>>
    /\ progressClosed
    /\ barCap > 0

\* Whether ProgressLogger is to write an envelope to outLog.
MustWrite(e) ==
    \/ e.Type = ProgressError
    \/ e.Type \in {ProgressMessage, ProgressUpdate, ProgressEstimate} /\ logMessages
    \/ e.Type \notin {ProgressError, ProgressMessage, ProgressUpdate, ProgressEstimate}

\* The line of an envelope.
LineOf(e) ==
    CASE e.Type = ProgressError -> ErrorLine(e)
      [] e.Type = ProgressMessage -> MessageLine(e)
      [] e.Type \in {ProgressUpdate, ProgressEstimate} -> NumberLine(e)
      [] OTHER -> UnknownLine(e)

\* C17: the lines written are, in order, one line for every envelope handled
\* that is a ProgressError, or a ProgressMessage, ProgressUpdate or
\* ProgressEstimate with logMessages on, or of any other tag (ProgressOther
\* or out of range); no other envelope has a line, and none stops the loop.
C17_WritesByTag ==
    LET w == SelectSeq(Switched, MustWrite)
    IN  outLog = [i \in 1..Len(w) |-> LineOf(w[i])]

C17_Witness ==
    /\ ~logMessages
    /\ sinkPc = "done"
    /\ fed = <<PMessagef("Hello"), Progress(ProgressCrap, StringValue("CRAP!")),
               PErrorf("Error!")>>
    /\ outLog = <<"[PROGRESS] ??: {Type: Data:CRAP!}", "[PROGRESS] ERROR: Error!">>

\* ----------------------------------------- claims about Progress methods
\* The names of the five defined tags, by tag value.
TagNames == <<"ProgressError", "ProgressUpdate", "ProgressEstimate",
              "ProgressMessage", "ProgressOther">>

\* The name of a tag: its entry of TagNames, or "" for any other value.
NameOf(t) == IF t \in 0..4 THEN TagNames[t + 1] ELSE ""

\* C18: Error() is the carried error for a ProgressError and nil for every
\* other tag; Type.String() is the name of a defined tag and "" for any other
\* value; String() is "<name>: <payload>", so ": <payload>" for a tag out of
\* range.
C18_EnvelopeMethods ==
    /\ gotError # <<>> =>
          /\ (pe.Type = ProgressError /\ pe.Data.kind = "error") => gotError[1] = pe.Data
          /\ pe.Type # ProgressError => gotError[1] = NilValue
    /\ gotTypeString # <<>> => gotTypeString[1] = NameOf(pe.Type)
    /\ gotString # <<>> =>
          gotString[1] = NameOf(pe.Type) \o ": " \o FormatValue(pe.Data)

C18_Witness ==
    /\ pe = Progress(ProgressCrap, StringValue("CRAP!"))
    /\ gotError = <<NilValue>>
    /\ gotTypeString = <<"">>
    /\ gotString = <<": CRAP!">>

\* ------------------------------------------------- claims about draining
\* A call of the WorkerFunc starts in this step.
CallStarts == Len(execLog') > Len(execLog)

\* The Work the call that starts in this step is given.
CallItem == execLog'[Len(execLog')]

\* C21 (as claimed): once doneChan is closed no worker invocation receives a
\* work item from the intake channel (the zero Work of a closed channel is
\* not an item).
C21_NoDispatchAfterDrain ==
    [][(doneClosed /\ CallStarts) => CallItem = ZeroWork]_vars

\* C21 (amended): draining cancels nothing: an invocation inside the
\* WorkerFunc stays there until its wCount.Add(1) and leaves only by
\* returning, doneChan closed or not, and no call once made is unmade; after
\* doneChan is closed an item is received only out of the buffer of the
\* intake channel, and never from an unbuffered one.
C21_DrainCancelsNothing ==
    [][/\ \A w \in WorkerIds :
            /\ wpc[w] = "emit" => wpc'[w] \in {"emit", "count"}
            /\ wpc[w] = "count" => wpc'[w] \in {"count", "dec"}
            /\ (wpc[w] = "count" /\ wpc'[w] = "dec") => wCount' = wCount + 1
            /\ (wpc[w] \in {"none", "select"}) => wpc'[w] # "count"
       /\ Len(execLog') >= Len(execLog)
       /\ SubSeq(execLog', 1, Len(execLog)) = execLog
       /\ (doneClosed /\ CallStarts /\ CallItem # ZeroWork) =>
              (workCap > 0 /\ workBuf # <<>> /\ CallItem = Head(workBuf))]_vars

C21_Witness ==
    /\ doneClosed
    /\ workCap = 0
    /\ nItems = MaxItems
    /\ \E w \in WorkerIds : wpc[w] = "emit"
    /\ \E w \in WorkerIds : wpc[w] = "count"
    /\ supPc = "exit"

\* Every goroutine of the Job has returned and has given back what it held:
\* the admission loop and every worker invocation are gone, the counter is 0
\* and every slot is free.
AllReturned == Quiet /\ workerCount = 0 /\ lockFree = maxWorkers

\* C22: once doneChan is closed, with fair scheduling and a WorkerFunc that
\* always returns (its Progress is received), the admission loop and every
\* worker invocation return, each worker having decremented the counter once
\* and released its slot once (a worker that got no item leaves through the
\* doneChan case), and it stays so.
C22_AllTerminateAfterDrain ==
    (doneClosed /\ drained) ~> [](AllReturned)

C22_Witness ==
    /\ doneClosed
    /\ drained
    /\ AllReturned
    /\ nItems = MaxItems
    /\ wCount = nItems
    /\ Len(idLog) > Len(execLog)
    /\ \E i \in DoneIds : delivered[i] = 1 /\ wtPc[i] = "exit"

\* Worker invocations blocked for good in the WorkerFunc: in the send of
\* their Progress on the unbuffered progressChan that nobody receives from.
Stalled == {w \in WorkerIds : ~drained /\ wpc[w] = "emit"}

\* C24 (as claimed): while a worker invocation is stalled its slot is held,
\* the counter is not zero and no IsDone() channel has delivered a value.
C24_StalledWorkerStallsDrain ==
    Stalled # {} =>
        /\ lockFree < maxWorkers
        /\ workerCount > 0
        /\ \A i \in DoneIds : delivered[i] = 0

\* ------------------------------------------------- claims about ordering
IsItem(x) == x # ZeroWork

\* The items the WorkerFunc was called with, in call order, without the zero
\* Work of a closed channel.
ItemsExecuted == SelectSeq(execLog, IsItem)

\* C23: with maxWorkers = 1 the WorkerFunc is called on the items in the
\* order they were sent (the caller sends item 1, then 2, ...), at most one
\* call is running at any time, and every earlier call has returned before
\* the next one starts.
C23_SingleWorkerKeepsOrder ==
    maxWorkers = 1 =>
        /\ ItemsExecuted = [n \in 1..Len(ItemsExecuted) |-> n]
        /\ Cardinality(Executing) <= 1
        /\ wCount = Len(execLog) - Cardinality(Executing)

C23_Witness ==
    /\ maxWorkers = 1
    /\ nItems = MaxItems
    /\ execLog = [n \in 1..MaxItems |-> n]
    /\ wCount = MaxItems - 1
    /\ Cardinality(Executing) = 1
    /\ Len(idLog) >= MaxItems

====
